---- MODULE Spec2Model ----
(***************************************************************************)
(* LLM Data Vault: the Redis-backed vault store (DataVaultService), its    *)
(* read paths (retrieve / retrieveWithMetadata / validateAccessToken), the *)
(* query service's entry lookup and the tool wrapper that offloads arrays. *)
(*                                                                         *)
(* Redis is modelled by the commands the code issues on it: SET key EX,    *)
(* GET, WATCH, UNWATCH, MULTI/EXPIRE/EXEC, and key expiry.  WATCH state is *)
(* per connection; DataVaultService owns exactly one connection, shared by *)
(* all of its in-flight calls.                                             *)
(***************************************************************************)
EXTENDS Integers, Sequences, FiniteSets, TLC

\* ---------------------------------------------------------------- bounds
MaxPuts == 2          \* number of store() calls in a behaviour
MaxRows == 2          \* longest array handed to store()
FirstGap == 1650      \* seconds of the first, long step of the clock
TickStep == 150       \* seconds of every later step of the clock
MaxNow == 1950        \* the clock stops here
AttemptCap == 3       \* the attempt counter saturates here
MaxPaths == 2         \* longest list of paths handed to extractDataByPaths

\* ------------------------------------------------------ program constants
ttlSeconds == 1800
gracePeriodSeconds == 300
SAMPLE_ROW_COUNT == 5
maxInlineRows == 100
maxInlineTokens == 10000
maxInlineBytes == 51200
MAX_RESULT_ROWS == 10000

Users == {"alice", "bob"}
Calls == {"c1", "c2"}
RowValues == {"r1", "undefined"}
PipeUser == "alice"
SessionId == "s1"
SourceTool == "tool"

Min(a, b) == IF a <= b THEN a ELSE b

\* UUIDs are numbered in the order randomUUID() hands them out; 0 stands for
\* an absent or empty string (falsy in the token test).
MaxUUID == 2 * MaxPuts
UUIDs == 1..MaxUUID
NoToken == 0

DataArrays == UNION {[1..n -> RowValues] : n \in 0..MaxRows}

NotFound == [ok |-> FALSE]
NoEntry == [none |-> TRUE]
NoReply == [op |-> "none"]
\* limit left out (undefined); 0 is a limit one can give
NoLimit == -1

\* JSON values: objects, arrays of rows, strings, and JavaScript's undefined
Obj(f) == [t |-> "obj", v |-> f]
Arr(a) == [t |-> "arr", v |-> a]
Str(x) == [t |-> "str", v |-> x]
Undefined == [t |-> "undefined"]
Thrown == [t |-> "throw"]
EmptyObj == Obj(<< >>)
NoEnvelope == [none |-> TRUE]

\* user SQL: what it selects from, its own LIMIT clause (<<n>>, or none),
\* whether the word limit stands elsewhere in the text, and DuckDB's error
\* for it (none when it compiles)
NoClause == << >>
SQL(source, n, limit, word, error) ==
  [source |-> source, n |-> n, limit |-> limit, word |-> word, error |-> error]
SelectAll == SQL("table", 0, NoClause, FALSE, << >>)

Queries == {"q1", "q2"}
IdleQuery == [pc |-> "idle", handleId |-> 0, userDid |-> "alice", accessToken |-> NoToken,
              sql |-> SelectAll, entry |-> NoEntry, inserted |-> 0, result |-> NoReply]

IdlePipe == [pc |-> "idle", result |-> Undefined, original |-> Undefined,
             reply |-> NoReply, analysis |-> NoEntry,
             queue |-> << >>, fields |-> Undefined, envelope |-> NoEnvelope,
             writes |-> << >>, output |-> Undefined]

VARIABLES
  now,        \* wall clock, seconds
  store,      \* Redis: handle -> VaultEntry (as parsed from the stored JSON)
  expireAt,   \* Redis: handle -> absolute time at which the key expires
  watched,    \* keys WATCHed on the vault service's connection
  dirty,      \* that connection's "a watched key changed" flag
  uuids,      \* how many UUIDs randomUUID() has returned
  minted,     \* history: one record per completed store()
  calls,      \* in-flight retrieve / retrieveWithMetadata calls
  reply,      \* last answer of validateAccessToken / the query service
  pipe,       \* the wrapped tool's run in progress
  queries,    \* in-flight executeQuery calls of the query tool
  tables      \* DuckDB catalog of the one connection: table name -> rows

vars == <<now, store, expireAt, watched, dirty, uuids, minted, calls, reply, pipe,
          queries, tables>>

\* ------------------------------------------------------------------ JSON
\* JSON.stringify turns an undefined array element into null; JSON.parse
\* gives null back.
JSONValue(v) == IF v = "undefined" THEN "null" ELSE v

JSONArray(a) == [i \in 1..Len(a) |-> JSONValue(a[i])]

\* ------------------------------------------------------------ randomUUID
randomUUID(n) == n + 1

\* -------------------------------------------------------- extractMetadata
extractMetadata(data, handleId, sourceTool, accessToken) ==
  [ handleId |-> handleId,
    fetchToken |-> accessToken,
    sourceTool |-> sourceTool,
    rowCount |-> Len(data),
    sampleRows |-> SubSeq(data, 1, Min(SAMPLE_ROW_COUNT, Len(data))),
    dataOffloaded |-> TRUE,
    note |-> IF Len(data) = 0 THEN "offloaded" ELSE "sample-warning" ]

\* ----------------------------------------------------- schema of the rows
\* values of a cell; a row is a function from its column names to values
Null == [t |-> "null"]
Num(x) == [t |-> "num", v |-> x]
Bool(x) == [t |-> "bool", v |-> x]

\* the strings of the model that datePattern matches
DateStrings == {"2024-01-31", "2024-01-31T10:00:00Z"}

\* row[col]: undefined when the row has no such key
Cell(row, col) == IF col \in DOMAIN row THEN row[col] ELSE Undefined

inferType(value) ==
  IF value.t \in {"null", "undefined"} THEN "null"
  ELSE IF value.t = "arr" THEN "array"
  ELSE IF value.t = "obj" THEN "object"
  ELSE IF value.t = "num" THEN "number"
  ELSE IF value.t = "bool" THEN "boolean"
  ELSE IF value.t = "str" /\ value.v \in DateStrings THEN "date"
  ELSE "string"

\* the schema extractMetadata builds: one item for each key of the first row
Schema(data) ==
  IF Len(data) = 0 THEN << >>
  ELSE LET firstRow == data[1] IN
       [col \in DOMAIN firstRow |->
          [column |-> col,
           type |-> inferType(Cell(firstRow, col)),
           nullable |-> \E i \in 1..Len(data) :
                          Cell(data[i], col).t \in {"null", "undefined"}]]

\* one call of extractMetadata on rows with columns, and the schema in its
\* envelope
ExtractSchema(data) ==
  /\ reply' = [op |-> "extractMetadata", data |-> data, rowCount |-> Len(data),
               schema |-> Schema(data)]
  /\ UNCHANGED <<now, store, expireAt, watched, dirty, uuids, minted, calls, pipe,
                 queries, tables>>

\* JSON.parse(JSON.stringify(entry))
JSONEntry(e) ==
  [e EXCEPT !.fullData = JSONArray(e.fullData),
            !.metadata.sampleRows = JSONArray(e.metadata.sampleRows)]

\* ------------------------------------------------------------ Redis model
Live(h) == h \in DOMAIN store

\* a change of key k marks the connection dirty when it watches k
Touch(keys) == IF keys \cap watched # {} THEN TRUE ELSE dirty

\* ----------------------------------------------------------------- store
\* mutant: the handle is not drawn afresh for every store()
StoreHandle_Fixed(n) == randomUUID(0)

StoreHandle(n) == randomUUID(n)
StoreToken(n) == randomUUID(n + 1)

NewEntry(data, userDid, sessionId, sourceTool, handleId, accessToken) ==
  [ fullData |-> data,
    metadata |-> extractMetadata(data, handleId, sourceTool, accessToken),
    userDid |-> userDid,
    sessionId |-> sessionId,
    createdAt |-> now,
    accessToken |-> accessToken ]

\* the state change of one store(): redis.set(key, JSON, 'EX', ttl)
StoreEffect(data, userDid, sessionId, sourceTool) ==
  LET handleId == StoreHandle(uuids)
      accessToken == StoreToken(uuids)
      entry == NewEntry(data, userDid, sessionId, sourceTool, handleId, accessToken)
  IN /\ uuids' = uuids + 2
     /\ store' = [h \in DOMAIN store \cup {handleId} |->
                    IF h = handleId THEN JSONEntry(entry) ELSE store[h]]
     /\ expireAt' = [h \in DOMAIN store \cup {handleId} |->
                    IF h = handleId THEN now + ttlSeconds ELSE expireAt[h]]
     /\ dirty' = Touch({handleId})
     /\ minted' = Append(minted, [handleId |-> handleId, accessToken |-> accessToken,
                                  data |-> data, userDid |-> userDid])

Store(data, userDid) ==
  /\ Len(minted) < MaxPuts
  /\ StoreEffect(data, userDid, SessionId, SourceTool)
  /\ UNCHANGED <<now, watched, calls, reply, pipe, queries, tables>>

\* ------------------------------------------------------------------ time
\* The clock advances; Redis deletes every key whose TTL has run out, which
\* counts as a change of that key for the connections watching it.
NextInstant == IF now = 0 THEN FirstGap ELSE now + TickStep

Tick ==
  /\ NextInstant <= MaxNow
  /\ now' = NextInstant
  /\ LET gone == {h \in DOMAIN store : expireAt[h] <= now'}
     IN /\ store' = [h \in DOMAIN store \ gone |-> store[h]]
        /\ expireAt' = [h \in DOMAIN store \ gone |-> expireAt[h]]
        /\ dirty' = Touch(gone)
  /\ UNCHANGED <<watched, uuids, minted, calls, reply, pipe, queries, tables>>

\* --------------------------------------- retrieve / retrieveWithMetadata
IdleCall == [pc |-> "idle", kind |-> "retrieve", handleId |-> 0, userDid |-> "alice",
             accessToken |-> NoToken, entry |-> NoEntry, attempts |-> 0,
             issuedAt |-> 0, result |-> NotFound,
             header |-> NoToken]   \* x-data-token of the HTTP request served

\* the call is made
CallStart(c, kind, handleId, userDid, accessToken) ==
  /\ calls[c].pc = "idle"
  /\ calls' = [calls EXCEPT ![c] =
        [IdleCall EXCEPT !.pc = "watch", !.kind = kind, !.handleId = handleId,
                         !.userDid = userDid, !.accessToken = accessToken,
                         !.attempts = 1, !.issuedAt = now]]
  /\ UNCHANGED <<now, store, expireAt, watched, dirty, uuids, minted, reply, pipe, queries, tables>>

\* await this.redis.watch(key)
CallWatch(c) ==
  /\ calls[c].pc = "watch"
  /\ watched' = watched \cup {calls[c].handleId}
  /\ calls' = [calls EXCEPT ![c].pc = "get"]
  /\ UNCHANGED <<now, store, expireAt, dirty, uuids, minted, reply, pipe, queries, tables>>

\* mutant: the comparison of the tokens is inverted
TokenRejected_Inverted(entry, accessToken) ==
  accessToken # NoToken /\ entry.accessToken = accessToken

\* the token test: if (accessToken && entry.accessToken !== accessToken)
TokenRejected(entry, accessToken) ==
  accessToken # NoToken /\ entry.accessToken # accessToken

\* await this.redis.get(key), then the checks on the parsed entry
CallGet(c) ==
  LET h == calls[c].handleId IN
  /\ calls[c].pc = "get"
  /\ IF ~Live(h) \/ store[h].userDid # calls[c].userDid
        \/ TokenRejected(store[h], calls[c].accessToken)
     THEN calls' = [calls EXCEPT ![c].pc = "unwatch"]
     ELSE calls' = [calls EXCEPT ![c].pc = "exec", ![c].entry = store[h]]
  /\ UNCHANGED <<now, store, expireAt, watched, dirty, uuids, minted, reply, pipe, queries, tables>>

\* mutant: the failed call returns with its watch still set
CallUnwatch_KeepWatch(c) ==
  /\ calls[c].pc = "unwatch"
  /\ calls' = [calls EXCEPT ![c].pc = "done", ![c].result = NotFound]
  /\ UNCHANGED <<now, store, expireAt, watched, dirty, uuids, minted, reply, pipe, queries, tables>>

\* await this.redis.unwatch(); return null
CallUnwatch(c) ==
  /\ calls[c].pc = "unwatch"
  /\ watched' = {}
  /\ dirty' = FALSE
  /\ calls' = [calls EXCEPT ![c].pc = "done", ![c].result = NotFound]
  /\ UNCHANGED <<now, store, expireAt, uuids, minted, reply, pipe, queries, tables>>

\* what the call returns after a successful transaction
CallResult(kind, entry) ==
  IF kind = "retrieve"
  THEN [ok |-> TRUE, data |-> entry.fullData]
  ELSE [ok |-> TRUE, data |-> entry.fullData, metadata |-> entry.metadata]

\* mutant: the transaction leaves the TTL alone
ExpireEffect_NoShrink(h) ==
  /\ expireAt' = expireAt
  /\ store' = store

\* mutant: the entry is dropped once it has been fetched
ExpireEffect_Delete(h) ==
  /\ expireAt' = [k \in DOMAIN expireAt \ {h} |-> expireAt[k]]
  /\ store' = [k \in DOMAIN store \ {h} |-> store[k]]

\* pipeline.expire(key, gracePeriodSeconds) run inside EXEC
ExpireEffect(h) ==
  /\ expireAt' = [k \in DOMAIN expireAt |->
                   IF k = h THEN now + gracePeriodSeconds ELSE expireAt[k]]
  /\ store' = store

\* what the code does when exec() returns null
OnConflict(c) ==
  calls' = [calls EXCEPT ![c].pc = "watch", ![c].entry = NoEntry,
                         ![c].attempts = Min(@ + 1, AttemptCap)]

\* MULTI / EXPIRE / EXEC, then the test on the reply.  EXEC forgets every
\* watch of the connection and clears its dirty flag, whether it runs the
\* queued commands or aborts.
CallExec(c) ==
  LET h == calls[c].handleId IN
  /\ calls[c].pc = "exec"
  /\ watched' = {}
  /\ dirty' = FALSE
  /\ IF dirty
     THEN /\ OnConflict(c)
          /\ UNCHANGED <<expireAt, store>>
     ELSE /\ ExpireEffect(h)
          /\ calls' = [calls EXCEPT ![c].pc = "done",
                         ![c].result = CallResult(calls[c].kind, calls[c].entry)]
  /\ UNCHANGED <<now, uuids, minted, reply, pipe, queries, tables>>

\* the caller has its answer; the slot is free again
CallReturn(c) ==
  /\ calls[c].pc = "done"
  /\ calls' = [calls EXCEPT ![c] = IdleCall]
  /\ UNCHANGED <<now, store, expireAt, watched, dirty, uuids, minted, reply, pipe, queries, tables>>

\* ------------------------------------------------- validateAccessToken
\* mutant: any token passes for a key that exists
validateAccessToken_AnyToken(handleId, accessToken) ==
  Live(handleId)

validateAccessToken(handleId, accessToken) ==
  IF ~Live(handleId) THEN FALSE ELSE store[handleId].accessToken = accessToken

ValidateAccessToken(handleId, accessToken) ==
  /\ reply' = [op |-> "validateAccessToken", handleId |-> handleId,
               ok |-> validateAccessToken(handleId, accessToken)]
  /\ UNCHANGED <<now, store, expireAt, watched, dirty, uuids, minted, calls, pipe, queries, tables>>

\* ------------------------------------------------- GET /data-vault/:handleId
\* an absent header is the empty string
NoUser == ""

HttpError(status, message) == [op |-> "http", status |-> status, message |-> message]

\* the handler up to the call of retrieveWithMetadata(handleId, userDid):
\* the two header tests and validateAccessToken
HttpRequest(c, handleId, userDid, accessToken) ==
  /\ calls[c].pc = "idle"
  /\ IF userDid = NoUser
     THEN /\ reply' = HttpError(401, "User DID required")
          /\ calls' = calls
     ELSE IF accessToken = NoToken
     THEN /\ reply' = HttpError(401, "Data access token required")
          /\ calls' = calls
     ELSE IF ~validateAccessToken(handleId, accessToken)
     THEN /\ reply' = HttpError(401, "Invalid access token")
          /\ calls' = calls
     ELSE /\ reply' = NoReply
          /\ calls' = [calls EXCEPT ![c] =
                [IdleCall EXCEPT !.pc = "watch", !.kind = "http", !.handleId = handleId,
                                 !.userDid = userDid, !.attempts = 1, !.issuedAt = now,
                                 !.header = accessToken]]
  /\ UNCHANGED <<now, store, expireAt, watched, dirty, uuids, minted, pipe, queries, tables>>

\* retrieveWithMetadata has returned: 404 on null, else the JSON body
HttpRespond(c) ==
  /\ calls[c].pc = "done"
  /\ calls[c].kind = "http"
  /\ reply' = IF calls[c].result.ok
              THEN [op |-> "http", status |-> 200, handleId |-> calls[c].handleId,
                    rowCount |-> Len(calls[c].result.data), data |-> calls[c].result.data,
                    metadata |-> calls[c].result.metadata]
              ELSE HttpError(404, "Data not found or expired")
  /\ calls' = [calls EXCEPT ![c] = IdleCall]
  /\ UNCHANGED <<now, store, expireAt, watched, dirty, uuids, minted, pipe, queries, tables>>

\* --------------------------------------------------------- query service
\* DataVaultQueryService reads the key on its own connection, with a plain GET
\* mutant: the owner is not compared
getVaultEntry_AnyOwner(handleId, userDid, accessToken) ==
  IF ~Live(handleId) THEN NoEntry
  ELSE IF store[handleId].accessToken # accessToken THEN NoEntry
  ELSE store[handleId]

getVaultEntry(handleId, userDid, accessToken) ==
  IF ~Live(handleId) THEN NoEntry
  ELSE IF store[handleId].userDid # userDid THEN NoEntry
  ELSE IF store[handleId].accessToken # accessToken THEN NoEntry
  ELSE store[handleId]

\* an error message is the sequence of its words; includes() looks for a
\* run of words
Includes(message, phrase) ==
  \E i \in 0..(Len(message) - Len(phrase)) :
    SubSeq(message, i + 1, i + Len(phrase)) = phrase

MsgDataNotFound ==
  <<"Data", "not", "found", ",", "expired", ",", "or", "access", "denied">>
MsgEmptyData == <<"Data", "must", "be", "a", "non-empty", "array">>
MsgLoadFailed == <<"Failed", "to", "load", "data", "into", "table", ":">>
MsgQueryFailed == <<"Query", "failed", ":">>
MsgTimeout == <<"Query", "timeout", "after", "30000ms">>
\* thrown by the JavaScript runtime on a null row
MsgKeysOfNull == <<"Cannot", "convert", "undefined", "or", "null", "to", "object">>
MsgReadOfNull == <<"Cannot", "read", "properties", "of", "null">>
\* DuckDB's catalog, binder and parser errors
MsgTableExists == <<"Catalog", "Error", ":", "Table", "already", "exists", "!">>
MsgNoSuchTable == <<"Catalog", "Error", ":", "Table", "does", "not", "exist", "!">>
MsgNoSuchColumn ==
  <<"Binder", "Error", ":", "Referenced", "column", "not", "found", "in", "FROM", "clause", "!">>
MsgSyntax == <<"Parser", "Error", ":", "syntax", "error", "at", "end", "of", "input">>

DataNotFoundError == [op |-> "error", message |-> MsgDataNotFound]

\* length of JSON.stringify(rows): every row value takes four characters
JSONLength(a) == IF Len(a) = 0 THEN 2 ELSE 5 * Len(a) + 1

\* shouldOffload on an array (anything else is never to be offloaded)
shouldOffload(data) ==
  \/ Len(data) > maxInlineRows
  \/ JSONLength(data) > maxInlineBytes
  \/ JSONLength(data) > 4 * maxInlineTokens

\* if (limit && ...): undefined and 0 are both falsy
Given(limit) == limit # NoLimit /\ limit # 0

RetrieveFullData(handleId, userDid, accessToken, limit) ==
  LET entry == getVaultEntry(handleId, userDid, accessToken)
      cut == Given(limit) /\ Len(entry.fullData) > limit
      data == IF cut THEN SubSeq(entry.fullData, 1, limit) ELSE entry.fullData
  IN
  /\ reply' = IF entry = NoEntry THEN DataNotFoundError
              ELSE [op |-> "retrieveFullData", handleId |-> handleId, data |-> data,
                    rowCount |-> Len(data), sizeBytes |-> JSONLength(data),
                    limitApplied |-> cut,
                    estimatedTokens |-> (JSONLength(data) + 3) \div 4]
  /\ UNCHANGED <<now, store, expireAt, watched, dirty, uuids, minted, calls, pipe, queries, tables>>

\* ----------------------------------------------------------- executeQuery
tableName(handleId) == <<"vault", handleId>>

Error(message) == [op |-> "error", message |-> message]

\* the call is made: await this.getVaultEntry(...), and the throw before try
QueryStart(q, handleId, userDid, accessToken, sql) ==
  LET entry == getVaultEntry(handleId, userDid, accessToken) IN
  /\ queries[q].pc = "idle"
  /\ queries' = [queries EXCEPT ![q] =
        [IdleQuery EXCEPT !.pc = IF entry = NoEntry THEN "done" ELSE "create",
                          !.handleId = handleId, !.userDid = userDid,
                          !.accessToken = accessToken, !.sql = sql, !.entry = entry,
                          !.result = IF entry = NoEntry THEN DataNotFoundError
                                     ELSE NoReply]]
  /\ UNCHANGED <<now, store, expireAt, watched, dirty, uuids, minted, calls, reply, pipe,
                 tables>>

\* an error inside try: the result is kept and finally runs next
Fail(q, message) ==
  queries' = [queries EXCEPT ![q].pc = "drop", ![q].result = Error(message)]

\* loadDataIntoTable up to and including CREATE TABLE
QueryCreate(q) ==
  LET data == queries[q].entry.fullData
      name == tableName(queries[q].handleId)
  IN
  /\ queries[q].pc = "create"
  /\ IF Len(data) = 0 THEN Fail(q, MsgEmptyData) /\ tables' = tables
     ELSE IF data[1] = "null" THEN Fail(q, MsgKeysOfNull) /\ tables' = tables
     ELSE IF name \in DOMAIN tables
     THEN Fail(q, MsgLoadFailed \o MsgTableExists) /\ tables' = tables
     ELSE /\ tables' = [n \in DOMAIN tables \cup {name} |->
                          IF n = name THEN << >> ELSE tables[n]]
          /\ queries' = [queries EXCEPT ![q].pc = "insert"]
  /\ UNCHANGED <<now, store, expireAt, watched, dirty, uuids, minted, calls, reply, pipe>>

\* one turn of the loop of INSERT statements
QueryInsert(q) ==
  LET data == queries[q].entry.fullData
      name == tableName(queries[q].handleId)
      row == data[queries[q].inserted + 1]
  IN
  /\ queries[q].pc = "insert"
  /\ IF row = "null" THEN Fail(q, MsgLoadFailed \o MsgReadOfNull) /\ tables' = tables
     ELSE IF name \notin DOMAIN tables
     THEN Fail(q, MsgLoadFailed \o MsgNoSuchTable) /\ tables' = tables
     ELSE /\ tables' = [tables EXCEPT ![name] = Append(@, row)]
          /\ queries' = [queries EXCEPT
                ![q].inserted = @ + 1,
                ![q].pc = IF queries[q].inserted + 1 = Len(data) THEN "run" ELSE "insert"]
  /\ UNCHANGED <<now, store, expireAt, watched, dirty, uuids, minted, calls, reply, pipe>>

\* the text has LIMIT in it when it has a LIMIT clause or the word elsewhere
ensureLimit(sql) ==
  IF sql.limit # NoClause \/ sql.word THEN sql
  ELSE [sql EXCEPT !.limit = <<MAX_RESULT_ROWS>>]

\* what DuckDB answers to a statement that compiles
runAndReadAll(sql, rows) ==
  LET all == IF sql.source = "table" THEN rows ELSE [i \in 1..sql.n |-> "r1"]
      count == IF sql.limit = NoClause THEN Len(all) ELSE Min(Len(all), sql.limit[1])
  IN SubSeq(all, 1, count)

QueryResult(rows) ==
  [op |-> "executeQuery", rows |-> rows, rowCount |-> Len(rows),
   truncated |-> Len(rows) >= MAX_RESULT_ROWS]

\* runQueryWithTimeout: the statement's answer, or the timer's rejection
QueryRun(q) ==
  LET sql == ensureLimit(queries[q].sql)
      name == tableName(queries[q].handleId)
  IN
  /\ queries[q].pc = "run"
  /\ \E timeout \in BOOLEAN :
       queries' = [queries EXCEPT ![q].pc = "drop", ![q].result =
          IF timeout THEN Error(MsgTimeout)
          ELSE IF sql.error # << >> THEN Error(MsgQueryFailed \o sql.error)
          ELSE IF sql.source = "table" /\ name \notin DOMAIN tables
          THEN Error(MsgQueryFailed \o MsgNoSuchTable)
          ELSE QueryResult(runAndReadAll(sql, IF sql.source = "table"
                                               THEN tables[name] ELSE << >>))]
  /\ UNCHANGED <<now, store, expireAt, watched, dirty, uuids, minted, calls, reply, pipe,
                 tables>>

\* mutant: the cleanup leaves the table in place
dropTable_Keep(name) == tables' = tables

\* DROP TABLE IF EXISTS
dropTable(name) == tables' = [n \in DOMAIN tables \ {name} |-> tables[n]]

\* finally { await this.dropTable(tableName) }
QueryDrop(q) ==
  /\ queries[q].pc = "drop"
  /\ dropTable(tableName(queries[q].handleId))
  /\ queries' = [queries EXCEPT ![q].pc = "done"]
  /\ UNCHANGED <<now, store, expireAt, watched, dirty, uuids, minted, calls, reply, pipe>>

\* query_vaulted_data: the tool's answer to the LLM
isDataNotFound(errorMessage) ==
  \/ Includes(errorMessage, <<"not", "found">>)
  \/ Includes(errorMessage, <<"expired">>)
  \/ Includes(errorMessage, <<"access", "denied">>)

queryTool(result) ==
  IF result.op = "executeQuery"
  THEN [success |-> TRUE, rows |-> result.rows, rowCount |-> result.rowCount,
        truncated |-> result.truncated]
  ELSE IF isDataNotFound(result.message)
  THEN [success |-> FALSE, error |-> <<"Data", "not", "found", "or", "expired">>,
        errorType |-> "DATA_NOT_FOUND"]
  ELSE [success |-> FALSE, error |-> result.message, errorType |-> "QUERY_ERROR"]

\* executeQuery has settled and the tool hands its answer over
QueryReturn(q) ==
  /\ queries[q].pc = "done"
  /\ reply' = queryTool(queries[q].result)
  /\ queries' = [queries EXCEPT ![q] = IdleQuery]
  /\ UNCHANGED <<now, store, expireAt, watched, dirty, uuids, minted, calls, pipe, tables>>

\* --------------------------------------------------------- path utilities
\* a path is the sequence of its dot-separated keys; << >> is the root
Put(f, k, x) == [j \in DOMAIN f \cup {k} |-> IF j = k THEN x ELSE f[j]]
Drop(f, k) == [j \in DOMAIN f \ {k} |-> f[j]]

RECURSIVE getByPath(_, _)
getByPath(obj, path) ==
  IF path = << >> THEN obj
  ELSE IF obj.t = "obj" /\ Head(path) \in DOMAIN obj.v
       THEN getByPath(obj.v[Head(path)], Tail(path))
       ELSE Undefined

RECURSIVE setByPath(_, _, _)
setByPath(obj, path, value) ==
  LET k == Head(path)
      child == IF k \in DOMAIN obj.v /\ obj.v[k].t \in {"obj", "arr"}
               THEN obj.v[k] ELSE EmptyObj
  IN IF obj.t # "obj" THEN obj
     ELSE IF Len(path) = 1 THEN [obj EXCEPT !.v = Put(obj.v, k, value)]
     ELSE [obj EXCEPT !.v = Put(obj.v, k, setByPath(child, Tail(path), value))]

RECURSIVE deleteByPath(_, _)
deleteByPath(obj, path) ==
  LET k == Head(path) IN
  IF obj.t # "obj" THEN obj
  ELSE IF Len(path) = 1 THEN [obj EXCEPT !.v = Drop(obj.v, k)]
  ELSE IF k \notin DOMAIN obj.v THEN obj
  ELSE [obj EXCEPT !.v = Put(obj.v, k, deleteByPath(obj.v[k], Tail(path)))]

\* JSON.parse(JSON.stringify(value))
RECURSIVE JSONClone(_)
JSONClone(value) ==
  IF value.t = "arr" THEN Arr(JSONArray(value.v))
  ELSE IF value.t = "obj" THEN Obj([k \in DOMAIN value.v |-> JSONClone(value.v[k])])
  ELSE value

\* setByPath refuses the root path, so preserving the root throws
RECURSIVE buildPreservedFrom(_, _, _)
buildPreservedFrom(result, source, paths) ==
  IF paths = << >> THEN result
  ELSE LET path == Head(paths)
           value == getByPath(source, path)
       IN IF value = Undefined THEN buildPreservedFrom(result, source, Tail(paths))
          ELSE IF path = << >> THEN Thrown
          ELSE buildPreservedFrom(setByPath(result, path, value), source, Tail(paths))

buildPreservedObject(source, paths) == buildPreservedFrom(EmptyObj, source, paths)

\* Map.set: a key keeps the place of its first insertion
MapSet(m, path, data) ==
  IF \E i \in 1..Len(m) : m[i].path = path
  THEN [i \in 1..Len(m) |-> IF m[i].path = path THEN [path |-> path, data |-> data] ELSE m[i]]
  ELSE Append(m, [path |-> path, data |-> data])

\* the loop over extractionPaths, from its i-th path on
RECURSIVE extractLoop(_, _, _, _, _)
extractLoop(response, paths, preservePaths, extracted, modified) ==
  IF paths = << >>
  THEN IF preservePaths # << >>
       THEN [extracted |-> extracted, residual |-> buildPreservedObject(response, preservePaths)]
       ELSE [extracted |-> extracted, residual |-> modified]
  ELSE LET path == Head(paths)
           data == getByPath(response, path)
       IN IF data = Undefined
          THEN extractLoop(response, Tail(paths), preservePaths, extracted, modified)
          ELSE IF path = << >>
          THEN [extracted |-> MapSet(extracted, path, data),
                residual |-> buildPreservedObject(response, preservePaths)]
          ELSE extractLoop(response, Tail(paths), preservePaths,
                           MapSet(extracted, path, data), deleteByPath(modified, path))

\* mutant: no early return when there is no extraction path
extractDataByPaths_NoEarlyReturn(response, extractionPaths, preservePaths) ==
  extractLoop(response, extractionPaths, preservePaths, << >>, JSONClone(response))

extractDataByPaths(response, extractionPaths, preservePaths) ==
  IF extractionPaths = << >>
  THEN [extracted |-> << >>, residual |-> response]
  ELSE extractLoop(response, extractionPaths, preservePaths, << >>, JSONClone(response))

\* ------------------------------------------------------ object identity
\* An object or array that exists before the call carries ref, its address
\* (where it sits in the response).  JSON.parse and {} make objects without
\* ref; reading a value out and assigning it elsewhere keeps its ref, as
\* JavaScript keeps the reference.
RECURSIVE WithRefs(_, _)
WithRefs(value, path) ==
  IF value.t = "obj"
  THEN [t |-> "obj", ref |-> path,
        v |-> [k \in DOMAIN value.v |-> WithRefs(value.v[k], Append(path, k))]]
  ELSE IF value.t = "arr" THEN [t |-> "arr", ref |-> path, v |-> value.v]
  ELSE value

\* the addresses of the pre-existing objects found inside a value
RECURSIVE Refs(_)
Refs(value) ==
  IF value.t \notin {"obj", "arr"} THEN {}
  ELSE (IF "ref" \in DOMAIN value THEN {value.ref} ELSE {})
       \cup (IF value.t = "obj" THEN UNION {Refs(value.v[k]) : k \in DOMAIN value.v}
             ELSE {})

\* one call of extractDataByPaths, and what it returned
Extract(response, extractionPaths, preservePaths) ==
  /\ reply' = [op |-> "extract", response |-> response,
               extractionPaths |-> extractionPaths, preservePaths |-> preservePaths]
              @@ extractDataByPaths(response, extractionPaths, preservePaths)
  /\ UNCHANGED <<now, store, expireAt, watched, dirty, uuids, minted, calls, pipe,
                 queries, tables>>

\* --------------------------------------------------------- wrapped tool
\* the property name of the i-th element of an array
IndexKey(i) == ToString(i - 1)

\* { ...modifiedResponse } when it is an object (an array is one), else {}
Spread(value) ==
  IF value.t = "obj" THEN value.v
  ELSE IF value.t = "arr"
       THEN [k \in {IndexKey(i) : i \in 1..Len(value.v)} |->
               Str(value.v[CHOOSE i \in 1..Len(value.v) : IndexKey(i) = k])]
       ELSE << >>

\* a string that is the JSON text of a value; Str(x) is any other string
JSONText(value) == [t |-> "json", v |-> value]
IsString(x) == x.t \in {"str", "json"}

\* JSON.stringify(value)
JSONStringify(value) == JSONText(JSONClone(value))

\* JSON.parse(result) in try/catch: the value, or the string itself
ParseResult(result) == IF result.t = "json" THEN result.v ELSE result

\* LangChain's ToolMessage, and lines 91-110 that take its content out
ToolMessage(content) == Obj("lc_serializable" :> Str("true") @@ "content" :> content)

Unwrap(parsed) ==
  IF parsed.t = "obj" /\ {"lc_serializable", "content"} \subseteq DOMAIN parsed.v
  THEN LET content == parsed.v["content"] IN
       IF content.t = "json" THEN content.v
       ELSE IF content.t = "str" THEN Obj("content" :> content)
       ELSE IF content.t \in {"obj", "arr"} THEN content
       ELSE parsed
  ELSE parsed

\* typeof result === 'string' ? result : JSON.stringify(parsedResult)
ReturnOriginal(result, parsedResult) ==
  IF IsString(result) THEN result ELSE JSONStringify(parsedResult)

\* ------------------------------------------------------- analysis agent
\* the agent's answer is the JSON text of an object, some other text, or
\* the model call throws
Field(parsed, k) == IF k \in DOMAIN parsed THEN parsed[k] ELSE Undefined
Truthy(x) == x.t # "undefined" /\ x # Str("")
IsArray(x) == x.t = "arr"

\* mutant: the extraction paths are not validated; a missing list is empty
parseAnalysisResponse_NoPathCheck(content) ==
  IF content.t # "json" THEN Thrown
  ELSE LET parsed == content.v IN
       IF \/ ~Truthy(Field(parsed, "semanticDescription"))
          \/ ~Truthy(Field(parsed, "offloadRecommendation"))
          \/ ~IsArray(Field(parsed, "preserveInlinePaths"))
       THEN Thrown
       ELSE [rec |-> parsed["offloadRecommendation"].v,
             extract |-> IF IsArray(Field(parsed, "dataExtractionPaths"))
                         THEN parsed["dataExtractionPaths"].v ELSE << >>,
             preserve |-> parsed["preserveInlinePaths"].v]

parseAnalysisResponse(content) ==
  IF content.t # "json" THEN Thrown
  ELSE LET parsed == content.v IN
       IF \/ ~Truthy(Field(parsed, "semanticDescription"))
          \/ ~Truthy(Field(parsed, "offloadRecommendation"))
          \/ ~IsArray(Field(parsed, "dataExtractionPaths"))
          \/ ~IsArray(Field(parsed, "preserveInlinePaths"))
       THEN Thrown
       ELSE [rec |-> parsed["offloadRecommendation"].v,
             extract |-> parsed["dataExtractionPaths"].v,
             preserve |-> parsed["preserveInlinePaths"].v]

\* agent.model.invoke throws, or its text is parsed
analyzeData(answer) ==
  IF answer.t = "throw" THEN Thrown ELSE parseAnalysisResponse(answer)

\* mutant: keep_inline is not honoured
KeepInline_Never(analysisResult) == FALSE

KeepInline(analysisResult) == analysisResult.rec = "keep_inline"

\* the tool is invoked and its result analysed.  A string that is not JSON
\* goes back as it is; so does every result when there is no analysis
\* service or the analysis says keep_inline; a failed analysis or extraction
\* is thrown to the caller
PipeInvoke(result, dataAnalysis, answer) ==
  /\ pipe.pc = "idle"
  /\ LET parsed == ParseResult(result)
         parsedResult == Unwrap(parsed)
         analysisResult == analyzeData(answer)
         ex == extractDataByPaths(parsedResult, analysisResult.extract,
                                  analysisResult.preserve)
         run == [IdlePipe EXCEPT !.result = result, !.original = parsedResult]
         asked == [run EXCEPT !.reply = answer]
     IN
     pipe' =
       IF IsString(parsed) THEN [run EXCEPT !.pc = "done", !.output = parsed]
       ELSE IF ~dataAnalysis
       THEN [run EXCEPT !.pc = "done", !.output = ReturnOriginal(result, parsedResult)]
       ELSE IF analysisResult = Thrown THEN [asked EXCEPT !.pc = "failed"]
       ELSE IF KeepInline(analysisResult)
       THEN [asked EXCEPT !.pc = "done", !.analysis = analysisResult,
                          !.output = ReturnOriginal(result, parsedResult)]
       ELSE IF ex.residual = Thrown
       THEN [asked EXCEPT !.pc = "failed", !.analysis = analysisResult]
       ELSE [asked EXCEPT !.pc = "store", !.analysis = analysisResult,
                          !.queue = ex.extracted, !.fields = Spread(ex.residual)]
  /\ UNCHANGED <<now, store, expireAt, watched, dirty, uuids, minted, calls, reply,
                 queries, tables>>

\* one turn of the loop over the extracted values: an array is stored and its
\* metadata merged into the answer, anything else is skipped
PipeStore ==
  /\ pipe.pc = "store"
  /\ pipe.queue # << >>
  /\ LET data == Head(pipe.queue).data IN
     IF data.t = "arr"
     THEN /\ Len(minted) < MaxPuts
          /\ StoreEffect(data.v, PipeUser, SessionId, SourceTool)
          /\ pipe' = [pipe EXCEPT !.queue = Tail(@),
                        !.envelope = extractMetadata(data.v, StoreHandle(uuids),
                                                     SourceTool, StoreToken(uuids)),
                        !.writes = Append(@, StoreHandle(uuids))]
     ELSE /\ pipe' = [pipe EXCEPT !.queue = Tail(@)]
          /\ UNCHANGED <<store, expireAt, dirty, uuids, minted>>
  /\ UNCHANGED <<now, watched, calls, reply, queries, tables>>

\* mutant: the failing run deletes what it has written
PipeStoreFails_RollBack ==
  /\ pipe.pc = "store"
  /\ pipe.queue # << >>
  /\ Head(pipe.queue).data.t = "arr"
  /\ LET written == {pipe.writes[i] : i \in 1..Len(pipe.writes)} IN
     /\ store' = [h \in DOMAIN store \ written |-> store[h]]
     /\ expireAt' = [h \in DOMAIN store \ written |-> expireAt[h]]
     /\ dirty' = Touch(written \cap DOMAIN store)
  /\ pipe' = [pipe EXCEPT !.pc = "failed"]
  /\ UNCHANGED <<now, watched, uuids, minted, calls, reply, queries, tables>>

\* await dataVault.store(...) rejects (redis.set fails): the error leaves the
\* loop and func, which has no try/catch.  The two UUIDs the failed store drew
\* are never seen again, so the counter is left where it was.
PipeStoreFails ==
  /\ pipe.pc = "store"
  /\ pipe.queue # << >>
  /\ Head(pipe.queue).data.t = "arr"
  /\ pipe' = [pipe EXCEPT !.pc = "failed"]
  /\ UNCHANGED <<now, store, expireAt, watched, dirty, uuids, minted, calls, reply,
                 queries, tables>>

\* return JSON.stringify(vaultMetadata)
PipeFinish ==
  /\ pipe.pc = "store"
  /\ pipe.queue = << >>
  /\ pipe' = [pipe EXCEPT !.pc = "done",
                !.output = [t |-> "merged", fields |-> pipe.fields,
                            envelope |-> pipe.envelope]]
  /\ UNCHANGED <<now, store, expireAt, watched, dirty, uuids, minted, calls, reply,
               queries, tables>>

\* the caller has the answer, or the error
PipeReturn ==
  /\ pipe.pc \in {"done", "failed"}
  /\ pipe' = IdlePipe
  /\ UNCHANGED <<now, store, expireAt, watched, dirty, uuids, minted, calls, reply,
               queries, tables>>

\* ----------------------------------------------------------------- spec
Init ==
  /\ now = 0
  /\ store = << >>
  /\ expireAt = << >>
  /\ watched = {}
  /\ dirty = FALSE
  /\ uuids = 0
  /\ minted = << >>
  /\ calls = [c \in Calls |-> IdleCall]
  /\ reply = NoReply
  /\ pipe = IdlePipe
  /\ queries = [q \in Queries |-> IdleQuery]
  /\ tables = << >>

\* ------------------------------------------------------------ environment
Kinds == {"retrieve", "retrieveWithMetadata"}

\* the handles store() can mint, and one id that is never a handle
HandleArgs == {StoreHandle(2 * i) : i \in 0..(MaxPuts - 1)} \cup {MaxUUID}
TokenArgs == {StoreToken(2 * i) : i \in 0..(MaxPuts - 1)} \cup {NoToken}

\* every (handle, principal, token) a caller may present
AllArgs == [h : HandleArgs, u : Users, t : TokenArgs]
\* alice presenting, for each handle, the token minted with it
OwnArgs == {[h |-> StoreHandle(2 * i), u |-> "alice", t |-> StoreToken(2 * i)] :
              i \in 0..(MaxPuts - 1)}

\* the first handle with right and wrong credentials, and the made-up handle
FirstArgs ==
  {[h |-> StoreHandle(0), u |-> u, t |-> t] : u \in Users, t \in {StoreToken(0), NoToken}}
    \cup {[h |-> MaxUUID, u |-> "alice", t |-> NoToken]}

Puts(D, U) == \E data \in D, u \in U : Store(data, u)

\* a caller can name a handle some store() has returned, or a made-up one
Known(h) == h = MaxUUID \/ \E i \in 1..Len(minted) : minted[i].handleId = h

Starts(C, K, A) ==
  \E c \in C, kind \in K, a \in A :
    Known(a.h) /\ CallStart(c, kind, a.h, a.u, a.t)

Reads(A, L) ==
  \/ \E a \in A : Known(a.h) /\ ValidateAccessToken(a.h, a.t)
  \/ \E a \in A, limit \in L : Known(a.h) /\ RetrieveFullData(a.h, a.u, a.t, limit)

Steps(C) ==
  \/ \E c \in C : CallWatch(c)
  \/ \E c \in C : CallGet(c)
  \/ \E c \in C : CallUnwatch(c)
  \/ \E c \in C : CallExec(c)
  \/ \E c \in C : CallReturn(c)

\* one caller at a time, every combination of credentials
NextAuth ==
  \/ Puts({<<"r1">>}, Users)
  \/ Tick
  \/ Starts({"c1"}, Kinds, AllArgs)
  \/ Steps({"c1"})

SpecAuth == Init /\ [][NextAuth]_vars

\* concurrent callers with the right credentials, racing with expiry
NextRace ==
  \/ Puts({<<"r1">>}, {"alice"})
  \/ Tick
  \/ Starts(Calls, {"retrieve"}, OwnArgs \cup {[h |-> MaxUUID, u |-> "alice", t |-> NoToken]})
  \/ Steps(Calls)

SpecRace == Init /\ [][NextRace]_vars

\* tool results the wrapped tool is run on, as in-memory values
Payloads ==
  { Arr(<<"r1", "r1">>),
    Obj("status" :> Str("ok") @@ "data" :> Obj("rows" :> Arr(<<"r1", "undefined">>))),
    Obj("status" :> Str("ok") @@ "items" :> Arr(<< >>)),
    Obj("items" :> Arr(<<"r1">>) @@ "rows" :> Arr(<<"undefined", "r1">>)) }

\* the agent's answer with all of its fields
AgentReply(rec, extract, preserve) ==
  JSONText("semanticDescription" :> Str("rows of a table")
             @@ "offloadRecommendation" :> Str(rec)
             @@ "dataExtractionPaths" :> Arr(extract)
             @@ "preserveInlinePaths" :> Arr(preserve))

Analyses ==
  { AgentReply("keep_inline", << <<"items">> >>, << >>),
    AgentReply("offload_array", << <<"data", "rows">> >>, << <<"status">> >>),
    AgentReply("offload_array", << <<"items">>, <<"rows">> >>, << >>),
    AgentReply("offload_array", << <<"status">>, <<"items">> >>, << >>),
    AgentReply("offload_all", << << >> >>, << <<"status">> >>) }

Pipeline(P, S, R) ==
  \/ \E result \in P, dataAnalysis \in S, answer \in R :
       PipeInvoke(result, dataAnalysis, answer)
  \/ PipeStore
  \/ PipeFinish
  \/ PipeReturn

\* the wrapped tool writes the vault; the query tools read it
NextPipe ==
  \/ Pipeline(Payloads, BOOLEAN, Analyses \cup {Thrown})
  \/ Tick
  \/ Reads(OwnArgs, {NoLimit})

SpecPipe == Init /\ [][NextPipe]_vars

\* what originalTool.invoke may return: plain text, JSON text, a ToolMessage
\* (in memory or as JSON text) around JSON text, plain text or an object, an
\* in-memory value, and an array longer than maxInlineRows
ToolResults ==
  Payloads \cup
  { Str("done"),
    JSONText(Obj("status" :> Str("ok") @@ "items" :> Arr(<<"r1">>))),
    JSONText(ToolMessage(JSONText(Obj("items" :> Arr(<<"r1">>))))),
    ToolMessage(JSONText(Obj("items" :> Arr(<<"r1", "r1">>)))),
    ToolMessage(Str("done")),
    ToolMessage(Obj("items" :> Arr(<<"r1">>))),
    JSONText(Arr([i \in 1..(maxInlineRows + 1) |-> "r1"])) }

\* an answer of the agent lacking one field
Without(answer, k) == JSONText(Drop(answer.v, k))

RequiredFields ==
  {"semanticDescription", "offloadRecommendation", "dataExtractionPaths",
   "preserveInlinePaths"}

\* the agent is unreachable, answers prose, leaves a field out, or answers
AgentReplies ==
  Analyses
    \cup {Thrown, Str("I could not analyze this data")}
    \cup {Without(AgentReply("offload_array", << <<"items">> >>, << >>), k) :
            k \in RequiredFields}

\* the wrapped tool alone, over every result shape and agent answer
NextWrap ==
  \/ Pipeline(ToolResults, BOOLEAN, AgentReplies)
  \/ Tick

SpecWrap == Init /\ [][NextWrap]_vars

\* one entry at a time, every array, read back with the right credentials
NextData ==
  \/ (minted = << >> /\ Puts(DataArrays, {"alice"}))
  \/ Tick
  \/ Starts(Calls, Kinds, OwnArgs)
  \/ Steps(Calls)

SpecData == Init /\ [][NextData]_vars

\* every operation of the vault and of the query service, one caller
NextFrame ==
  \/ Puts({<<"r1">>}, {"alice"})
  \/ Tick
  \/ Starts({"c1"}, Kinds, FirstArgs)
  \/ Steps({"c1"})
  \/ Reads(FirstArgs, {NoLimit, 1})

SpecFrame == Init /\ [][NextFrame]_vars

\* the query tool: its calls and their steps
QueryStarts(Q, A, S) ==
  \E q \in Q, a \in A, sql \in S : Known(a.h) /\ QueryStart(q, a.h, a.u, a.t, sql)

QuerySteps(Q) ==
  \/ \E q \in Q : QueryCreate(q)
  \/ \E q \in Q : QueryInsert(q)
  \/ \E q \in Q : QueryRun(q)
  \/ \E q \in Q : QueryDrop(q)
  \/ \E q \in Q : QueryReturn(q)

\* statements DuckDB rejects: an unknown column, a syntax error
BadColumn == SQL("table", 0, NoClause, FALSE, MsgNoSuchColumn)
BadSyntax == SQL("table", 0, NoClause, FALSE, MsgSyntax)

\* one entry of alice, queried by two concurrent calls of the query tool with
\* right and wrong credentials
NextQuery ==
  \/ minted = << >> /\ Puts({<< >>, <<"r1", "r1">>, <<"r1", "undefined">>}, {"alice"})
  \/ Tick
  \/ QueryStarts(Queries, FirstArgs, {SelectAll, BadColumn})
  \/ QuerySteps(Queries)

SpecQuery == Init /\ [][NextQuery]_vars

\* user SQL with and without a LIMIT of its own, over the table and over a
\* row generator (SELECT ... FROM range(n)) longer than the cap
LimitSQL ==
  { SelectAll,
    SQL("table", 0, <<1>>, FALSE, << >>),
    SQL("range", MAX_RESULT_ROWS, NoClause, FALSE, << >>),
    SQL("range", MAX_RESULT_ROWS + 1, NoClause, FALSE, << >>),
    SQL("range", MAX_RESULT_ROWS + 1, NoClause, TRUE, << >>),
    SQL("range", MAX_RESULT_ROWS + 1, <<MAX_RESULT_ROWS + 1>>, FALSE, << >>),
    BadSyntax }

\* one entry of alice and one query at a time, the SQL text varying
NextLimit ==
  \/ minted = << >> /\ Puts({<<"r1", "r1">>}, {"alice"})
  \/ Tick
  \/ QueryStarts({"q1"}, OwnArgs, LimitSQL)
  \/ QuerySteps({"q1"})

SpecLimit == Init /\ [][NextLimit]_vars

\* the first handle presented by either user with its own token, another
\* entry's token or none, and the made-up handle
DeniedArgs ==
  {[h |-> StoreHandle(0), u |-> u, t |-> t] :
     u \in Users, t \in {StoreToken(0), StoreToken(2), NoToken}}
    \cup {[h |-> MaxUUID, u |-> "alice", t |-> StoreToken(0)]}

\* entries of alice, and one caller at a time presenting a handle, a
\* principal and a token to the query service
NextDenied ==
  \/ Puts({<<"r1">>}, {"alice"})
  \/ Tick
  \/ QueryStarts({"q1"}, DeniedArgs, {SelectAll})
  \/ QuerySteps({"q1"})
  \/ Reads(DeniedArgs, {NoLimit})

SpecDenied == Init /\ [][NextDenied]_vars

\* what a client may send: the first handle or a made-up one, either user or
\* no principal header, the handle's token, no token or another token
HttpArgs ==
  [h : {StoreHandle(0), MaxUUID}, u : Users \cup {NoUser},
   t : {StoreToken(0), StoreToken(2), NoToken}]

\* entries of alice, and two HTTP requests at a time
NextHttp ==
  \/ Puts({<<"r1">>}, {"alice"})
  \/ Tick
  \/ \E c \in Calls, a \in HttpArgs : Known(a.h) /\ HttpRequest(c, a.h, a.u, a.t)
  \/ \E c \in Calls : CallWatch(c)
  \/ \E c \in Calls : CallGet(c)
  \/ \E c \in Calls : CallUnwatch(c)
  \/ \E c \in Calls : CallExec(c)
  \/ \E c \in Calls : HttpRespond(c)

SpecHttp == Init /\ [][NextHttp]_vars

\* one entry of alice, every array, read in full with and without a limit
Limits == {NoLimit} \cup 0..(MaxRows + 1)

NextFull ==
  \/ minted = << >> /\ Puts(DataArrays, {"alice"})
  \/ Tick
  \/ Reads(OwnArgs, Limits)

SpecFull == Init /\ [][NextFull]_vars

\* the wrapped tool when a write to the vault can fail
NextAbort ==
  \/ Pipeline(Payloads, {TRUE}, Analyses)
  \/ PipeStoreFails
  \/ Tick

SpecAbort == Init /\ [][NextAbort]_vars

\* rows over two columns: a cell is absent, null, a number, a boolean, a
\* string or a date string
Columns == {"id", "amount"}
CellValues == {Null, Num(7), Bool(TRUE), Str("x"), Str("2024-01-31")}
Rows == UNION {[cols -> CellValues] : cols \in SUBSET Columns}
Tables == UNION {[1..n -> Rows] : n \in 0..MaxRows}

\* one call a run
NextSchema == reply = NoReply /\ \E data \in Tables : ExtractSchema(data)

SpecSchema == Init /\ [][NextSchema]_vars

\* the first handle with the right owner or not, with its token, another
\* handle's token or none, and the made-up handle
FailArgs ==
  [h : {StoreHandle(0)}, u : Users, t : {StoreToken(0), StoreToken(2), NoToken}]
    \cup {[h |-> MaxUUID, u |-> "alice", t |-> NoToken]}

\* one entry; a caller whose gets mostly fail, next to a caller whose gets
\* succeed; token checks; expiry
NextFail ==
  \/ (minted = << >> /\ Puts({<<"r1">>}, {"alice"}))
  \/ Tick
  \/ Starts({"c1"}, {"retrieve"}, FailArgs)
  \/ Starts({"c2"}, {"retrieve"}, {a \in OwnArgs : a.h = StoreHandle(0)})
  \/ Steps(Calls)
  \/ \E a \in FailArgs : Known(a.h) /\ ValidateAccessToken(a.h, a.t)

SpecFail == Init /\ [][NextFail]_vars

\* responses (every object and array with its address), and lists of paths
\* into them: the root, keys that exist, nested keys, keys that do not
Responses == {WithRefs(payload, << >>) : payload \in Payloads}

PathSet ==
  {<< >>, <<"status">>, <<"items">>, <<"data">>, <<"data", "rows">>, <<"rows">>}

PathLists == UNION {[1..n -> PathSet] : n \in 0..MaxPaths}

\* one call a run: the function keeps nothing between calls
NextExtract ==
  reply = NoReply /\
  \E response \in Responses, extractionPaths \in PathLists, preservePaths \in PathLists :
    Extract(response, extractionPaths, preservePaths)

SpecExtract == Init /\ [][NextExtract]_vars

TypeOK == now \in 0..MaxNow

\* a call returned rows in this step
Succeeds(c) ==
  /\ calls[c].pc = "exec"
  /\ calls'[c].pc = "done"
  /\ calls'[c].result.ok

Done(c) == calls[c].pc = "done"

\* ---------------------------------------------------------------- C1
\* C1: a get or getWithMetadata returns rows only if the principal is the
\* entry's owner and the token is the entry's access token; any other pair,
\* an absent or empty token included, gets "not found".
C1_OnlyOwnerWithToken ==
  \A c \in Calls :
    (Done(c) /\ calls[c].result.ok)
      => /\ calls[c].entry.userDid = calls[c].userDid
         /\ calls[c].entry.accessToken = calls[c].accessToken

\* ---------------------------------------------------------------- C2
\* C2: one get makes at most two attempts, whatever the contention.
C2_AtMostTwoAttempts ==
  \A c \in Calls : calls[c].attempts <= 2

\* ---------------------------------------------------------------- C3
\* C3: an attempt returns rows only if the entry it read is still there,
\* unchanged, when its TTL shrink runs; a deletion in between is a conflict.
C3_NoChangeBetweenReadAndShrink ==
  [][\A c \in Calls :
       Succeeds(c) => /\ Live(calls[c].handleId)
                      /\ store[calls[c].handleId] = calls[c].entry]_vars

\* ---------------------------------------------------------------- C5
\* C5: createdAt + ttl is an absolute deadline; no read issued after it
\* returns the entry, however many reads came before.
C5_AbsoluteDeadline ==
  \A c \in Calls :
    (Done(c) /\ calls[c].result.ok)
      => calls[c].issuedAt <= calls[c].entry.createdAt + ttlSeconds

\* ---------------------------------------------------------------- C6
\* C6: a successful get sets the remaining lifetime to
\* min(old remaining, gracePeriod); it never lengthens it.
C6_GetNeverLengthensLife ==
  [][\A c \in Calls :
       (Succeeds(c) /\ Live(calls[c].handleId))
         => expireAt'[calls[c].handleId] - now
              = Min(expireAt[calls[c].handleId] - now, gracePeriodSeconds)]_vars

\* ---------------------------------------------------------------- C4
\* C4: immediately after a successful get (the first one included), the
\* entry that was read has at most gracePeriodSeconds left to live.
C4_TtlAtMostGraceAfterGet ==
  [][\A c \in Calls :
       (Succeeds(c) /\ calls[c].handleId \in DOMAIN store')
         => expireAt'[calls[c].handleId] - now' <= gracePeriodSeconds]_vars

\* a get succeeded on an entry that had more than the grace period left
C4_Witness ==
  \E c \in Calls :
    /\ calls[c].pc = "done"
    /\ calls[c].result.ok
    /\ Live(calls[c].handleId)
    /\ expireAt[calls[c].handleId] = now + gracePeriodSeconds
    /\ store[calls[c].handleId].createdAt + ttlSeconds > expireAt[calls[c].handleId]

\* the record of the store() that returned handle h
MintOf(h) == minted[CHOOSE i \in 1..Len(minted) : minted[i].handleId = h]

\* call c presents the owner and the token that store() returned with its handle
RightCredentials(c) ==
  \E i \in 1..Len(minted) :
    /\ minted[i].handleId = calls[c].handleId
    /\ minted[i].userDid = calls[c].userDid
    /\ minted[i].accessToken = calls[c].accessToken

C8_HandlesMintedOnce ==
  /\ \A i, j \in 1..Len(minted) :
       i # j => /\ minted[i].handleId # minted[j].handleId
                /\ minted[i].accessToken # minted[j].accessToken
  /\ \A h \in DOMAIN store :
       \E i \in 1..Len(minted) :
         /\ minted[i].handleId = h
         /\ store[h].accessToken = minted[i].accessToken
         /\ store[h].userDid = minted[i].userDid
         /\ store[h].fullData = JSONArray(minted[i].data)

\* two puts by different owners, both entries live
C8_Witness ==
  /\ Len(minted) = 2
  /\ Cardinality(DOMAIN store) = 2
  /\ minted[1].userDid # minted[2].userDid

\* ---------------------------------------------------------------- C9
\* C9: every vault entry has at least one row.
C9_NoEmptyEntry ==
  \A h \in DOMAIN store : Len(store[h].fullData) >= 1

\* ---------------------------------------------------------------- C10
\* C10: an entry's content never changes once written, and an entry leaves
\* the vault only when the clock reaches its expiry time.
C10_EntriesImmutable ==
  [][\A h \in DOMAIN store :
       IF h \in DOMAIN store'
       THEN store'[h] = store[h]
       ELSE now' > now /\ expireAt[h] <= now']_vars

\* an entry read by get and by retrieveFullData, a later put beside it
C10_Witness ==
  /\ Done("c1") /\ calls["c1"].result.ok
  /\ Live(calls["c1"].handleId)
  /\ store[calls["c1"].handleId] = calls["c1"].entry
  /\ reply.op = "retrieveFullData"
  /\ Len(minted) = 2
Loadable(data) == Len(data) > 0 /\ \A i \in 1..Len(data) : data[i] # "null"

\* C12: concurrent executeQuery calls over one handle work on disjoint
\* tables: a SELECT * over a live entry with loadable rows that does not
\* time out returns exactly the entry's rows, whatever other calls are doing.
C12_ConcurrentQueriesIndependent ==
  \A q \in Queries :
    (/\ queries[q].pc = "done"
     /\ queries[q].entry # NoEntry
     /\ Loadable(queries[q].entry.fullData)
     /\ queries[q].sql = SelectAll
     /\ queries[q].result # Error(MsgTimeout))
      => queries[q].result = QueryResult(queries[q].entry.fullData)

\* ---------------------------------------------------------------- C13
\* C13: whatever the user SQL, with or without a LIMIT of its own or the word
\* limit in it, a result has at most MAX_RESULT_ROWS rows, and truncated is
\* set exactly when the cap was reached.
C13_RowCap ==
  \A q \in Queries :
    (queries[q].pc = "done" /\ queries[q].result.op = "executeQuery")
      => /\ queries[q].result.rowCount <= MAX_RESULT_ROWS
         /\ queries[q].result.truncated
              <=> (queries[q].result.rowCount = MAX_RESULT_ROWS)

\* ---------------------------------------------------------------- C14
\* the four causes: the key is missing or has expired, the entry has another
\* owner, the token is not the entry's
Denied(a) ==
  \/ ~Live(a.h)
  \/ store[a.h].userDid # a.u
  \/ store[a.h].accessToken # a.t

C15_ErrorTypeByCause ==
  \A q \in Queries :
    (queries[q].pc = "done" /\ queries[q].result.op = "error")
      => (queryTool(queries[q].result).errorType = "DATA_NOT_FOUND"
            <=> queries[q].entry = NoEntry)

\* ---------------------------------------------------------------- C16
\* C16: a GET with both headers present is answered 404 whenever the handle
\* is unknown or has expired; 401 is kept for a missing or invalid principal
\* or token.
C16_UnknownHandleIs404 ==
  [][\A a \in HttpArgs :
       (/\ HttpRequest("c1", a.h, a.u, a.t)
        /\ a.u # NoUser /\ a.t # NoToken
        /\ ~Live(a.h))
         => (reply'.op = "http" /\ reply'.status = 404)]_vars

\* ---------------------------------------------------------------- C17
\* C17: when the analysis says keep_inline, the run returns the original
\* payload (the tool's own string, or the unwrapped payload serialized) and
\* writes no vault key, whatever the payload's shape and whatever extraction
\* and preserve paths the analysis names.
C17_KeepInlineIsFrame ==
  (/\ pipe.pc \in {"store", "done"}
   /\ pipe.analysis # NoEntry
   /\ pipe.analysis.rec = "keep_inline")
    => /\ pipe.pc = "done"
       /\ pipe.output \in {pipe.result, JSONStringify(pipe.original)}
       /\ pipe.writes = << >>
       /\ pipe.queue = << >>

\* keep_inline came with an extraction path that names an array of the
\* payload, a ToolMessage around JSON text; the run is over
C17_Witness ==
  /\ pipe.pc = "done"
  /\ pipe.analysis # NoEntry
  /\ pipe.analysis.rec = "keep_inline"
  /\ pipe.result.t = "obj"
  /\ pipe.result # pipe.original
  /\ getByPath(pipe.original, pipe.analysis.extract[1]).t = "arr"
  /\ pipe.output = JSONStringify(pipe.original)

\* ---------------------------------------------------------------- C18
\* the agent could not be reached, its answer is not JSON, or the answer
\* lacks one of the four required fields
AgentFailed(answer) ==
  \/ answer.t = "throw"
  \/ answer.t # "json"
  \/ \E k \in RequiredFields : k \notin DOMAIN answer.v

\* C18: a run whose analysis agent failed ends in a failure thrown to the
\* caller: nothing was written to the vault, nothing was extracted in the
\* agent's stead, and no tool output is handed over.
C18_AnalysisFailureFailsRun ==
  (pipe.pc # "idle" /\ pipe.reply # NoReply /\ AgentFailed(pipe.reply))
    => /\ pipe.pc = "failed"
       /\ pipe.writes = << >>
       /\ pipe.queue = << >>
       /\ pipe.analysis = NoEntry
       /\ pipe.output = Undefined

\* the agent's answer lacked dataExtractionPaths for a payload with an array
\* in it, and the run has failed
C18_Witness ==
  /\ pipe.pc = "failed"
  /\ pipe.reply # NoReply
  /\ pipe.reply.t = "json"
  /\ "dataExtractionPaths" \notin DOMAIN pipe.reply.v
  /\ getByPath(pipe.original, <<"items">>).t = "arr"
  /\ pipe.writes = << >>

\* ---------------------------------------------------------------- C19
\* the output is the tool's result or payload, possibly serialized anew
ReturnsOriginal ==
  \/ pipe.output \in {pipe.result, JSONStringify(pipe.original)}
  \/ /\ pipe.output.t = "merged"
     /\ pipe.output.envelope = NoEnvelope
     /\ pipe.original.t = "obj"
     /\ JSONClone(Obj(pipe.output.fields)) = JSONClone(pipe.original)

\* C19: a completed run either returns the original payload and has written
\* nothing, or returns the residual merged with an envelope carrying the
\* offloaded flag and has written at least one entry.
C19_TwoOutcomes ==
  pipe.pc = "done"
    => \/ pipe.writes = << >> /\ ReturnsOriginal
       \/ /\ pipe.writes # << >>
          /\ pipe.output.t = "merged"
          /\ pipe.output.envelope # NoEnvelope
          /\ pipe.output.envelope.dataOffloaded

\* ---------------------------------------------------------------- C20
\* C20: the wrapped tool writes an array to the vault only if shouldOffload
\* holds for it: more rows than maxInlineRows, more bytes than
\* maxInlineBytes, or more than maxInlineTokens by bytes / 4.
C20_OnlyLargeArraysStored ==
  \A i \in 1..Len(minted) : shouldOffload(minted[i].data)

\* ---------------------------------------------------------------- C21
\* C21: the grace period applies to the query service's reads too: once
\* executeQuery or retrieveFullData has succeeded on a handle, the entry has
\* at most gracePeriodSeconds left to live.
C21_GraceAfterQueryRead ==
  /\ \A q \in Queries :
       (/\ queries[q].pc = "done"
        /\ queries[q].result.op = "executeQuery"
        /\ Live(queries[q].handleId))
         => expireAt[queries[q].handleId] - now <= gracePeriodSeconds
  /\ (reply.op = "retrieveFullData" /\ Live(reply.handleId))
       => expireAt[reply.handleId] - now <= gracePeriodSeconds

\* ---------------------------------------------------------------- C22
\* C22: retrieveFullData with a limit (0 included) returns the first
\* min(limit, n) of the n stored rows, so at most limit rows, and
\* limitApplied says whether rows were left out; without a limit it returns
\* all n rows and limitApplied is false.
C22_LimitHonoured ==
  [][\A a \in OwnArgs, limit \in Limits :
       (RetrieveFullData(a.h, a.u, a.t, limit) /\ reply'.op = "retrieveFullData")
         => LET rows == store[a.h].fullData
                n == Len(rows)
            IN IF limit = NoLimit
               THEN reply'.data = rows /\ ~reply'.limitApplied
               ELSE /\ reply'.data = SubSeq(rows, 1, Min(limit, n))
                    /\ reply'.rowCount <= limit
                    /\ reply'.limitApplied <=> (reply'.rowCount < n)]_vars

\* ---------------------------------------------------------------- C23
\* C23: the residual shares no object with the response, hence none with the
\* extracted values, which are objects of the response: whatever the paths,
\* a write inside the residual reaches neither.
C23_ResidualSharesNothing ==
  (reply.op = "extract" /\ reply.residual # Thrown)
    => Refs(reply.residual) = {}

\* ---------------------------------------------------------------- C24
\* C24: with no extraction path the call returns an empty map and the
\* response itself, whatever the preserve paths.
C24_NoPathsNoOp ==
  (reply.op = "extract" /\ reply.extractionPaths = << >>)
    => /\ reply.extracted = << >>
       /\ reply.residual = reply.response

\* no extraction path, two preserve paths that exist in the response
C24_Witness ==
  /\ reply.op = "extract"
  /\ reply.extractionPaths = << >>
  /\ Len(reply.preservePaths) = 2
  /\ \A i \in 1..2 : getByPath(reply.response, reply.preservePaths[i]) # Undefined
  /\ reply.preservePaths[1] # << >>
  /\ reply.residual = reply.response

\* ---------------------------------------------------------------- C28
\* C28: nothing extracted stays in the residual: for every extraction path
\* below the root whose value in the response is defined, the residual has
\* nothing at that path, whatever the preserve paths.
C28_ResidualHasNoExtractedData ==
  (reply.op = "extract" /\ reply.residual # Thrown)
    => \A i \in 1..Len(reply.extractionPaths) :
         LET path == reply.extractionPaths[i] IN
         (path # << >> /\ getByPath(reply.response, path) # Undefined)
           => getByPath(reply.residual, path) = Undefined

\* ---------------------------------------------------------------- C25
\* C25: an entry's expiry time changes only in the EXEC of a get that
\* succeeds on it.  validateAccessToken changes no entry, no expiry time and
\* no watch; a get that ends in failure changed none in any of its steps, and
\* when it returns its handle is not watched.
C25_OnlySuccessfulGetShrinks ==
  [][/\ \A h \in DOMAIN store :
          (h \in DOMAIN store' /\ (expireAt'[h] # expireAt[h] \/ store'[h] # store[h]))
            => \E c \in Calls : Succeeds(c) /\ calls[c].handleId = h
     /\ \A c \in Calls :
          (calls[c].pc \in {"get", "unwatch"} /\ calls'[c].pc \in {"unwatch", "done"}
             /\ calls'[c].pc # calls[c].pc)
            => /\ store' = store
               /\ expireAt' = expireAt
               /\ calls'[c].pc = "done" => calls[c].handleId \notin watched'
     /\ (reply' # reply /\ reply'.op = "validateAccessToken")
          => /\ store' = store
             /\ expireAt' = expireAt
             /\ watched' = watched]_vars

\* a get with another handle's token has failed on a live entry of the caller,
\* whose time to live is still the full one, and nothing is watched
C25_Witness ==
  \E c \in Calls :
    /\ calls[c].pc = "done"
    /\ calls[c].result = NotFound
    /\ Live(calls[c].handleId)
    /\ store[calls[c].handleId].userDid = calls[c].userDid
    /\ calls[c].accessToken \notin {NoToken, store[calls[c].handleId].accessToken}
    /\ expireAt[calls[c].handleId] - now = ttlSeconds
    /\ watched = {}

\* ---------------------------------------------------------------- C26
\* C26: the step in which a put of a run fails undoes nothing: the entries
\* the run has written and their expiry times stay as they are, and the run
\* ends with an error and no answer.  An entry leaves the vault only in a
\* clock step that reaches its expiry time.
C26_NoRollBack ==
  [][/\ (pipe.pc = "store" /\ pipe'.pc = "failed")
          => /\ store' = store
             /\ expireAt' = expireAt
             /\ pipe'.writes = pipe.writes
     /\ pipe'.pc = "failed" => pipe'.output = Undefined
     /\ \A h \in DOMAIN store :
          h \notin DOMAIN store' => (now' > now /\ expireAt[h] <= now')]_vars

\* the second put of a run has failed; the entry of the first is in the vault
C26_Witness ==
  /\ pipe.pc = "failed"
  /\ Len(pipe.writes) = 1
  /\ Len(pipe.queue) = 1
  /\ Live(pipe.writes[1])
  /\ pipe.output = Undefined

\* ---------------------------------------------------------------- C27
\* the first value of a column, in the order of the rows, that is neither
\* null nor missing; null when there is none
RECURSIVE FirstNonNull(_, _)
FirstNonNull(data, col) ==
  IF data = << >> THEN Null
  ELSE IF Cell(Head(data), col).t \notin {"null", "undefined"} THEN Cell(Head(data), col)
  ELSE FirstNonNull(Tail(data), col)

\* C27: for every column of the first row the schema's type is the type of
\* the column's first non-null value over the rows, and nullable says
\* whether some row has null or nothing in that column.
C27_TypeOfFirstNonNull ==
  (reply.op = "extractMetadata" /\ reply.rowCount > 0)
    => \A col \in DOMAIN reply.data[1] :
         /\ reply.schema[col].type = inferType(FirstNonNull(reply.data, col))
         /\ reply.schema[col].nullable
              <=> \E i \in 1..Len(reply.data) :
                    Cell(reply.data[i], col).t \in {"null", "undefined"}

\* ---------------------------------------------------------------- C29
\* C29: the answer of a run that stored something names every entry the run
\* wrote: the handle of each put and the token minted with it are in the
\* returned object.
C29_EveryWriteInOutput ==
  (pipe.pc = "done" /\ pipe.output.t = "merged")
    => \A i \in 1..Len(pipe.writes) :
         \E j \in 1..Len(minted) :
           /\ minted[j].handleId = pipe.writes[i]
           /\ pipe.output.envelope.handleId = minted[j].handleId
           /\ pipe.output.envelope.fetchToken = minted[j].accessToken

\* ---------------------------------------------------------------- C30
\* C30: a request is answered 200 with rows only when the entry under its
\* handle was stored for the principal of x-user-did with the token of
\* x-data-token, and the rows are that entry's, whatever puts, expiries and
\* other requests come between its token check and its retrieval.
C30_HttpDataOnlyForOwnerWithToken ==
  [][\A c \in Calls :
       (calls[c].pc = "done" /\ calls[c].kind = "http" /\ calls'[c].pc = "idle"
          /\ reply'.op = "http" /\ reply'.status = 200)
         => \E j \in 1..Len(minted) :
              /\ minted[j].handleId = calls[c].handleId
              /\ minted[j].userDid = calls[c].userDid
              /\ minted[j].accessToken = calls[c].header
              /\ reply'.handleId = minted[j].handleId
              /\ reply'.data = JSONArray(minted[j].data)]_vars

\* a request was answered with the rows of the first entry after a second
\* entry had been put
C30_Witness ==
  /\ reply.op = "http"
  /\ reply.status = 200
  /\ reply.handleId = StoreHandle(0)
  /\ reply.data = <<"r1">>
  /\ Len(minted) = 2

====
